---- MODULE Spec2Model ----
(***************************************************************************)
(* State-machine model of the streaming-pull subscriber engine of          *)
(* src/pubsub/src/subscriber.rs: the keepalive (pinger) task, the          *)
(* receive/retry (inner) task with Subscriber::recv and handle_message,    *)
(* the shutdown join Subscriber::done and the batched RPC helpers ack,     *)
(* nack and modify_ack_deadline.                                           *)
(*                                                                         *)
(* The broker, the consumer of the outbound queue and the owner of the     *)
(* cancellation token are the environment: their choices are drawn with \E.*)
(***************************************************************************)
EXTENDS Integers, Sequences, FiniteSets, TLC

(***************************************************************************)
(* Bounds of the model.                                                    *)
(***************************************************************************)
\* frames the broker pushes during one engine lifetime
MaxFrames == 2
\* envelopes carried by one frame
MaxFrameLen == 2
\* capacity of the bounded outbound queue handed to start()
QueueCap == 1
\* ping tokens buffered in the keepalive channel
MaxPings == 1
\* calls of done() on one engine
MaxDoneCalls == 2
\* length of the token list handed to a batched RPC helper
MaxIds == 2
\* distinct lease tokens handed to a batched RPC helper
MaxTokens == 2

(***************************************************************************)
(* Program constants.                                                      *)
(***************************************************************************)
\* `if cancel_retry < 5`
CancelRetryLimit == 5
\* `tokio::time::sleep(Duration::from_millis(1000))`
CancelBackoffMs == 1000
\* nack(): `modify_ack_deadline(subscriber_client, subscription, ack_ids, 0)`
NackDeadlineSeconds == 0

\* gRPC status codes the broker answers with: Code::Cancelled, one code of
\* the default retryable set and one code outside of it.
Codes == {"Cancelled", "Unavailable", "PermissionDenied"}

\* default_retry_setting().codes, as far as Codes tells codes apart
DefaultRetryCodes == {"Unavailable"}

\* The configured retryable sets: config.retry_setting.codes, or the default
\* set when retry_setting is None.
RetryableChoices == {{"Unavailable"}, {"Cancelled", "Unavailable"}}

VARIABLES
    \* ---- environment and configuration
    cancelled,        \* ctx: the CancellationToken has been cancelled
    otherSenders,     \* the caller of start() kept a clone of the queue Sender
    config,           \* config: SubscriberConfig handed to start()
    retryable_codes,  \* retryable_codes of the inner task
    \* ---- keepalive task and its channel
    pingerPc,         \* "select" | "done"
    pingClosed,       \* the ping channel is closed (close() or receivers gone)
    pingCloseCalls,   \* calls of ping_sender.close()
    pingBuf,          \* ping tokens buffered in the channel
    pingSendFailed,   \* history: a ping_sender.send(true) has failed
    \* ---- receive/retry task
    innerPc,          \* "connecting" | "opening" | "sleep" | "recv" | "dispatch" |
                      \* "nack" | "hm_done" | "terminated"
    cancel_retry,     \* let mut cancel_retry = 0
    sleepMs,          \* duration of the backoff sleep in progress
    cancelledSeen,    \* history: "cancelled" answers to streaming_pull so far
    request,          \* the request of the last call of streaming_pull
    lastOpen,         \* history: the last answer to streaming_pull ("none" | "Ok" | code)
    termReason,       \* history: why the inner task left its loop
    cancelInRecv,     \* history: the token was cancelled during this call of recv
    lastRecv,         \* history: how the last call of recv returned (none while it runs)
    framesSeen,       \* frames read from the stream so far
    \* ---- handle_message
    messages,         \* the envelopes of the frame being dispatched
    idx,              \* position of the for loop in messages
    nack_targets,     \* let mut nack_targets = vec![]
    delivered,        \* history: ack ids enqueued by this call
    closedAtEntry,    \* history: the queue was closed when the call began
    hmRpcs,           \* history: RPC requests issued by this call
    hmReturn,         \* value returned by the last call of handle_message
    nackStatus,       \* history: what the nack call of this call returned ("none" before)
    \* ---- outbound queue
    queue,            \* lease handles buffered in the channel
    queueClosed,      \* the channel is closed
    queueCloseCalls,  \* calls of queue.close() made by the engine
    \* ---- Subscriber handle and done()
    pinger,           \* self.pinger is Some
    inner,            \* self.inner is Some
    donePc,           \* "idle" | "awaitPinger" | "awaitInner"
    doneAwaited,      \* history: tasks awaited by the call of done() in progress or last returned
    doneReturns,      \* calls of done() that returned
    \* ---- batched RPC helpers called on their own
    helper            \* the last helper call: its input and what it did

envVars == <<cancelled, otherSenders, config, retryable_codes>>
pingVars == <<pingerPc, pingClosed, pingCloseCalls, pingBuf, pingSendFailed>>
retryVars == <<cancel_retry, sleepMs, cancelledSeen, request, lastOpen>>
recvVars == <<termReason, cancelInRecv, lastRecv, framesSeen>>
hmVars == <<messages, idx, nack_targets, delivered, closedAtEntry, hmRpcs, hmReturn,
           nackStatus>>
queueVars == <<queue, queueClosed, queueCloseCalls>>
doneVars == <<pinger, inner, donePc, doneAwaited, doneReturns>>

vars == <<envVars, pingVars, innerPc, retryVars, recvVars, hmVars, queueVars,
          doneVars, helper>>

(***************************************************************************)
(* Values.                                                                 *)
(***************************************************************************)
\* Option<usize>: None is the empty sequence, Some(k) is <<k>>.
None == <<>>
Some(k) == <<k>>

\* ReceivedMessage::new: the lease handle built for one envelope.
ReceivedMessage_new(ack_id, delivery_attempt) ==
    [ack_id |-> ack_id, delivery_attempt |-> delivery_attempt]

\* Mutant of then_some_attempt: `>= 0` instead of `> 0`, so that a reported
\* count of 0 yields Some(0).
then_some_attempt_ZeroIsSome(delivery_attempt) ==
    IF delivery_attempt >= 0 THEN Some(delivery_attempt) ELSE None

\* `(received_message.delivery_attempt > 0).then_some(... as usize)`
then_some_attempt(delivery_attempt) ==
    IF delivery_attempt > 0 THEN Some(delivery_attempt) ELSE None

\* The frames (received_messages of one StreamingPullResponse) the broker can
\* push: at each position an envelope with or without a payload.  Frame
\* number n carries lease tokens of its own (tokens are unique per delivery),
\* and its envelope at position i reports i - 1 delivery attempts, so that a
\* frame holds first deliveries (count 0) and redeliveries (count >= 1).
FrameShapes == UNION {[1..len -> BOOLEAN] : len \in 0..MaxFrameLen}
FrameOf(shape, n) ==
    [i \in 1..Len(shape) |->
        [ack_id |-> n * (MaxFrameLen + 1) + i,
         delivery_attempt |-> i - 1,
         message |-> shape[i]]]

\* The delivery attempt count the broker reported for the envelope that
\* carried lease token ack_id (tokens are unique, see FrameOf).
ReportedAttempt(ack_id) == (ack_id % (MaxFrameLen + 1)) - 1

\* Lease tokens of the message-bearing envelopes of a frame, in frame order.
RECURSIVE BearingIds(_)
BearingIds(ms) ==
    IF ms = <<>> THEN <<>>
    ELSE (IF Head(ms).message THEN <<Head(ms).ack_id>> ELSE <<>>)
             \o BearingIds(Tail(ms))

SeqToSet(s) == {s[i] : i \in 1..Len(s)}

(***************************************************************************)
(* Configuration and the open-stream request.                              *)
(***************************************************************************)
\* `subscription: String` handed to start()
subscription == "projects/local-project/subscriptions/test-subscription1"

\* The SubscriberConfig values handed to start(): SubscriberConfig::default()
\* but for retry_setting None, and a configuration that differs from it in
\* every field the inner task reads.
Configs ==
    {[retry_setting |-> None,
      stream_ack_deadline_seconds |-> 60,
      max_outstanding_messages |-> 50,
      max_outstanding_bytes |-> 1000 * 1000 * 1000],
     [retry_setting |-> Some({"Cancelled", "Unavailable"}),
      stream_ack_deadline_seconds |-> 10,
      max_outstanding_messages |-> 1,
      max_outstanding_bytes |-> 1024]}

\* `match &config.retry_setting { Some(v) => v.codes.clone(), None => default_retry_setting().codes }`
retryable_codes_of(cfg) ==
    IF cfg.retry_setting = None THEN DefaultRetryCodes ELSE cfg.retry_setting[1]

\* create_empty_streaming_pull_request(): every field at its default
create_empty_streaming_pull_request ==
    [subscription |-> "",
     stream_ack_deadline_seconds |-> 0,
     max_outstanding_messages |-> 0,
     max_outstanding_bytes |-> 0]

\* the four assignments made to the empty request at the top of the loop
BuildRequest(cfg) ==
    [create_empty_streaming_pull_request EXCEPT
        !.subscription = subscription,
        !.stream_ack_deadline_seconds = cfg.stream_ack_deadline_seconds,
        !.max_outstanding_messages = cfg.max_outstanding_messages,
        !.max_outstanding_bytes = cfg.max_outstanding_bytes]

(***************************************************************************)
(* Batched RPC helpers.  `st` is the status the broker answers with if the *)
(* call is issued; a helper yields the requests it issued and its result.  *)
(***************************************************************************)
ModifyAckDeadlineRequest(ack_ids, ack_deadline_seconds) ==
    [ack_ids |-> ack_ids, ack_deadline_seconds |-> ack_deadline_seconds,
     method |-> "ModifyAckDeadline"]

\* AcknowledgeRequest has no deadline field: -1 stands for its absence.
AcknowledgeRequest(ack_ids) ==
    [ack_ids |-> ack_ids, ack_deadline_seconds |-> -1, method |-> "Acknowledge"]

\* Mutant of modify_ack_deadline: no short-circuit on an empty token list.
modify_ack_deadline_NoShortCircuit(ack_ids, ack_deadline_seconds, st) ==
    [rpcs |-> <<ModifyAckDeadlineRequest(ack_ids, ack_deadline_seconds)>>,
     result |-> st]

modify_ack_deadline(ack_ids, ack_deadline_seconds, st) ==
    IF ack_ids = <<>>
    THEN [rpcs |-> <<>>, result |-> "Ok"]
    ELSE [rpcs |-> <<ModifyAckDeadlineRequest(ack_ids, ack_deadline_seconds)>>,
          result |-> st]

nack(ack_ids, st) == modify_ack_deadline(ack_ids, NackDeadlineSeconds, st)

ack(ack_ids, st) ==
    IF ack_ids = <<>>
    THEN [rpcs |-> <<>>, result |-> "Ok"]
    ELSE [rpcs |-> <<AcknowledgeRequest(ack_ids)>>, result |-> st]

(***************************************************************************)
(* Classification of failures by the retry loop.                           *)
(***************************************************************************)
\* Mutant of OpenFailure: `cancel_retry <= 5` instead of `cancel_retry < 5`.
OpenFailure_OffByOne(code, cr, retryable) ==
    IF code = "Cancelled"
    THEN IF cr <= CancelRetryLimit
         THEN [cancel_retry |-> cr + 1, sleepMs |-> CancelBackoffMs,
               next |-> "sleep", reason |-> "none"]
         ELSE [cancel_retry |-> cr, sleepMs |-> 0,
               next |-> "terminated", reason |-> "cancel_budget"]
    ELSE IF code \in retryable
         THEN [cancel_retry |-> cr, sleepMs |-> 0,
               next |-> "connecting", reason |-> "none"]
         ELSE [cancel_retry |-> cr, sleepMs |-> 0,
               next |-> "terminated", reason |-> "open_fatal"]

\* Mutant of OpenFailure: a retryable code other than "cancelled" gets the
\* treatment of "cancelled" (counter and backoff).
OpenFailure_BackoffOnRetryable(code, cr, retryable) ==
    IF code = "Cancelled" \/ code \in retryable
    THEN IF cr < CancelRetryLimit
         THEN [cancel_retry |-> cr + 1, sleepMs |-> CancelBackoffMs,
               next |-> "sleep", reason |-> "none"]
         ELSE [cancel_retry |-> cr, sleepMs |-> 0,
               next |-> "terminated", reason |-> "cancel_budget"]
    ELSE [cancel_retry |-> cr, sleepMs |-> 0,
          next |-> "terminated", reason |-> "open_fatal"]

\* Mutant of OpenFailure: the retryable set is looked at first, "cancelled"
\* gets its own treatment only when it is not in the set.
OpenFailure_RetryableFirst(code, cr, retryable) ==
    IF code \in retryable
    THEN [cancel_retry |-> cr, sleepMs |-> 0,
          next |-> "connecting", reason |-> "none"]
    ELSE IF code = "Cancelled"
         THEN IF cr < CancelRetryLimit
              THEN [cancel_retry |-> cr + 1, sleepMs |-> CancelBackoffMs,
                    next |-> "sleep", reason |-> "none"]
              ELSE [cancel_retry |-> cr, sleepMs |-> 0,
                    next |-> "terminated", reason |-> "cancel_budget"]
         ELSE [cancel_retry |-> cr, sleepMs |-> 0,
               next |-> "terminated", reason |-> "open_fatal"]

\* `Err(e)` of streaming_pull: where the loop goes and the new counter.
OpenFailure(code, cr, retryable) ==
    IF code = "Cancelled"
    THEN IF cr < CancelRetryLimit
         THEN [cancel_retry |-> cr + 1, sleepMs |-> CancelBackoffMs,
               next |-> "sleep", reason |-> "none"]
         ELSE [cancel_retry |-> cr, sleepMs |-> 0,
               next |-> "terminated", reason |-> "cancel_budget"]
    ELSE IF code \in retryable
         THEN [cancel_retry |-> cr, sleepMs |-> 0,
               next |-> "connecting", reason |-> "none"]
         ELSE [cancel_retry |-> cr, sleepMs |-> 0,
               next |-> "terminated", reason |-> "open_fatal"]

\* Mutant of RecvFailure: a "cancelled" read error is sent to the backoff
\* sleep, as a "cancelled" open failure is.
RecvFailure_CancelledBacksOff(code, retryable) ==
    IF code = "Cancelled"
    THEN [next |-> "sleep", reason |-> "none"]
    ELSE IF code \in retryable
         THEN [next |-> "connecting", reason |-> "none"]
         ELSE [next |-> "terminated", reason |-> "recv_fatal"]

\* `Err(e)` of recv: reconnect or stop.
RecvFailure(code, retryable) ==
    IF code \in retryable
    THEN [next |-> "connecting", reason |-> "none"]
    ELSE [next |-> "terminated", reason |-> "recv_fatal"]

(***************************************************************************)
(* Initial state: start() has returned, both tasks are spawned.            *)
(***************************************************************************)
\* lastRecv: the result of recv, the select! branch it returned through, the
\* code of the error it returned and whether the token had been cancelled
\* while that call of recv was running
NoRecv == [cancelled |-> FALSE, result |-> "none", code |-> "none", via |-> "none"]
NoHelper == [ack_ids |-> <<>>, rpcs |-> <<>>, result |-> "Ok", op |-> "none",
             seconds |-> -1, status |-> "none"]

Init ==
    /\ cancelled = FALSE
    /\ otherSenders \in BOOLEAN
    /\ config \in Configs
    /\ retryable_codes = retryable_codes_of(config)
    /\ pingerPc = "select"
    /\ pingClosed = FALSE
    /\ pingCloseCalls = 0
    /\ pingBuf = 0
    /\ pingSendFailed = FALSE
    /\ innerPc = "connecting"
    /\ cancel_retry = 0
    /\ sleepMs = 0
    /\ cancelledSeen = 0
    /\ request = create_empty_streaming_pull_request
    /\ lastOpen = "none"
    /\ termReason = "none"
    /\ cancelInRecv = FALSE
    /\ lastRecv = NoRecv
    /\ framesSeen = 0
    /\ messages = <<>>
    /\ idx = 1
    /\ nack_targets = <<>>
    /\ delivered = <<>>
    /\ closedAtEntry = FALSE
    /\ hmRpcs = <<>>
    /\ hmReturn = 0
    /\ nackStatus = "none"
    /\ queue = <<>>
    /\ queueClosed = FALSE
    /\ queueCloseCalls = 0
    /\ pinger = TRUE
    /\ inner = TRUE
    /\ donePc = "idle"
    /\ doneAwaited = <<>>
    /\ doneReturns = 0
    /\ helper = NoHelper

(***************************************************************************)
(* Environment: the owner of the cancellation token, the consumer.         *)
(***************************************************************************)
\* ctx.cancel() by the owner of the token
Cancel ==
    /\ ~cancelled
    /\ cancelled' = TRUE
    /\ cancelInRecv' = (innerPc \in {"recv", "dispatch", "nack", "hm_done"})
    /\ UNCHANGED <<otherSenders, config, retryable_codes, pingVars, innerPc, retryVars,
                   termReason, lastRecv, framesSeen, hmVars, queueVars, doneVars,
                   helper>>

\* the consumer takes the next lease handle from the outbound queue
ConsumerRecv ==
    /\ queue # <<>>
    /\ queue' = Tail(queue)
    /\ UNCHANGED <<envVars, pingVars, innerPc, retryVars, recvVars, hmVars,
                   queueClosed, queueCloseCalls, doneVars, helper>>

\* the consumer closes the queue or drops its last Receiver
ConsumerClose ==
    /\ ~queueClosed
    /\ queueClosed' = TRUE
    /\ UNCHANGED <<envVars, pingVars, innerPc, retryVars, recvVars, hmVars,
                   queue, queueCloseCalls, doneVars, helper>>

(***************************************************************************)
(* Keepalive task (pinger).                                                *)
(***************************************************************************)
\* select!: `_ = ctx.cancelled() => { ping_sender.close(); break; }`
PingerCancelled ==
    /\ pingerPc = "select"
    /\ cancelled
    /\ pingClosed' = TRUE
    /\ pingCloseCalls' = pingCloseCalls + 1
    /\ pingerPc' = "done"
    /\ UNCHANGED <<envVars, pingBuf, pingSendFailed, innerPc, retryVars,
                   recvVars, hmVars, queueVars, doneVars, helper>>

\* Mutant of PingerTick: a failed send ends the loop
\* (`if ping_sender.send(true).await.is_err() { break; }`).
PingerTick_StopsOnError ==
    /\ pingerPc = "select"
    /\ IF pingClosed
       THEN /\ pingSendFailed' = TRUE
            /\ pingBuf' = pingBuf
            /\ pingerPc' = "done"
       ELSE /\ pingBuf < MaxPings
            /\ pingBuf' = pingBuf + 1
            /\ pingSendFailed' = pingSendFailed
            /\ pingerPc' = "select"
    /\ UNCHANGED <<envVars, pingClosed, pingCloseCalls, innerPc, retryVars,
                   recvVars, hmVars, queueVars, doneVars, helper>>

\* select!: `_ = sleep(config.ping_interval) => { let _ = ping_sender.send(true).await; }`
\* The channel is unbounded: the send never waits; it fails when the channel
\* is closed, and the failure is dropped.
PingerTick ==
    /\ pingerPc = "select"
    /\ IF pingClosed
       THEN /\ pingSendFailed' = TRUE
            /\ pingBuf' = pingBuf
       ELSE /\ pingBuf < MaxPings
            /\ pingBuf' = pingBuf + 1
            /\ pingSendFailed' = pingSendFailed
    /\ pingerPc' = "select"
    /\ UNCHANGED <<envVars, pingClosed, pingCloseCalls, innerPc, retryVars,
                   recvVars, hmVars, queueVars, doneVars, helper>>

\* the outgoing half of an open stream forwards a buffered ping to the broker
PingForward ==
    /\ innerPc \in {"recv", "dispatch", "nack", "hm_done"}
    /\ pingBuf > 0
    /\ pingBuf' = pingBuf - 1
    /\ UNCHANGED <<envVars, pingerPc, pingClosed, pingCloseCalls, pingSendFailed,
                   innerPc, retryVars, recvVars, hmVars, queueVars, doneVars, helper>>

\* The inner task has ended and dropped ping_receiver; once the transport
\* drops the clones it was given, the channel has no receiver and is closed.
PingReceiversDropped ==
    /\ innerPc = "terminated"
    /\ ~pingClosed
    /\ pingClosed' = TRUE
    /\ UNCHANGED <<envVars, pingerPc, pingCloseCalls, pingBuf, pingSendFailed,
                   innerPc, retryVars, recvVars, hmVars, queueVars, doneVars, helper>>

(***************************************************************************)
(* Receive/retry task (inner): the retry loop.                             *)
(***************************************************************************)
\* The task leaves its loop and ends: `queue`, its Sender, is dropped, which
\* closes the channel when no other Sender is left.
SenderDropped(closed) == closed \/ ~otherSenders

\* Mutant of StreamingPullCall: the loop is entered again after the task has
\* ended (a supervisor that restarts the task).
StreamingPullCall_Restarts ==
    /\ innerPc \in {"connecting", "terminated"}
    /\ request' = BuildRequest(config)
    /\ innerPc' = "opening"
    /\ UNCHANGED <<envVars, pingVars, cancel_retry, sleepMs, cancelledSeen, lastOpen,
                   recvVars, hmVars, queueVars, doneVars, helper>>

\* Mutant of StreamingPullCall: the deadline and the flow-control caps are
\* set on the first request only; a reconnection sends the subscription name
\* alone.
StreamingPullCall_ScalarsOnce ==
    /\ innerPc = "connecting"
    /\ request' = IF lastOpen = "none"
                  THEN BuildRequest(config)
                  ELSE [create_empty_streaming_pull_request EXCEPT
                           !.subscription = subscription]
    /\ innerPc' = "opening"
    /\ UNCHANGED <<envVars, pingVars, cancel_retry, sleepMs, cancelledSeen, lastOpen,
                   recvVars, hmVars, queueVars, doneVars, helper>>

\* top of the loop: build the request and call client.streaming_pull(..)
StreamingPullCall ==
    /\ innerPc = "connecting"
    /\ request' = BuildRequest(config)
    /\ innerPc' = "opening"
    /\ UNCHANGED <<envVars, pingVars, cancel_retry, sleepMs, cancelledSeen, lastOpen,
                   recvVars, hmVars, queueVars, doneVars, helper>>

\* Mutant of StreamingPullOk: the counter is scoped to one reconnection, a
\* successful open resets it (`cancel_retry = 0`).
StreamingPullOk_ResetsCounter ==
    /\ innerPc = "opening"
    /\ innerPc' = "recv"
    /\ cancel_retry' = 0
    /\ lastOpen' = "Ok"
    /\ cancelInRecv' = FALSE
    /\ lastRecv' = NoRecv
    /\ UNCHANGED <<envVars, pingVars, sleepMs, cancelledSeen, request,
                   termReason, framesSeen, hmVars, queueVars, doneVars, helper>>

\* `Ok(r) => r.into_inner()`: the stream is open, recv() starts
StreamingPullOk ==
    /\ innerPc = "opening"
    /\ innerPc' = "recv"
    /\ lastOpen' = "Ok"
    /\ cancelInRecv' = FALSE
    /\ lastRecv' = NoRecv
    /\ UNCHANGED <<envVars, pingVars, cancel_retry, sleepMs, cancelledSeen, request,
                   termReason, framesSeen, hmVars, queueVars, doneVars, helper>>

\* `Err(e) => ...`: the open failed with status `code`
StreamingPullErr(code) ==
    LET f == OpenFailure(code, cancel_retry, retryable_codes) IN
    /\ innerPc = "opening"
    /\ innerPc' = f.next
    /\ cancel_retry' = f.cancel_retry
    /\ sleepMs' = f.sleepMs
    /\ cancelledSeen' = IF code = "Cancelled" THEN cancelledSeen + 1 ELSE cancelledSeen
    /\ lastOpen' = code
    /\ termReason' = IF f.next = "terminated" THEN f.reason ELSE termReason
    /\ queueClosed' = IF f.next = "terminated" THEN SenderDropped(queueClosed)
                      ELSE queueClosed
    /\ UNCHANGED <<envVars, pingVars, request, cancelInRecv, lastRecv, framesSeen,
                   hmVars, queue, queueCloseCalls, doneVars, helper>>

\* `tokio::time::sleep(Duration::from_millis(1000)).await; continue;`
SleepDone ==
    /\ innerPc = "sleep"
    /\ innerPc' = "connecting"
    /\ sleepMs' = 0
    /\ UNCHANGED <<envVars, pingVars, cancel_retry, cancelledSeen, request, lastOpen,
                   recvVars, hmVars, queueVars, doneVars, helper>>

(***************************************************************************)
(* Subscriber::recv: select! over cancel.cancelled() and stream.message(). *)
(* select! polls its ready branches in random order: when both are ready   *)
(* either one is taken.                                                    *)
(***************************************************************************)
\* Mutant of RecvCancelled: recv returns on cancellation without queue.close().
RecvCancelled_NoClose ==
    /\ innerPc = "recv"
    /\ cancelled
    /\ queueClosed' = SenderDropped(queueClosed)
    /\ lastRecv' = [cancelled |-> cancelInRecv, result |-> "Ok", code |-> "none",
                   via |-> "cancel"]
    /\ termReason' = "recv_cancel"
    /\ innerPc' = "terminated"
    /\ UNCHANGED <<envVars, pingVars, retryVars, cancelInRecv, framesSeen, hmVars, queue,
                   queueCloseCalls, doneVars, helper>>

\* Mutant of RecvCancelled: cancellation is raced against the whole round of
\* the loop, so that it also ends a dispatch or a nack call in progress.
RecvCancelled_DropsDispatch ==
    /\ innerPc \in {"recv", "dispatch", "nack"}
    /\ cancelled
    /\ queueClosed' = TRUE
    /\ queueCloseCalls' = queueCloseCalls + 1
    /\ lastRecv' = [cancelled |-> cancelInRecv, result |-> "Ok", code |-> "none",
                   via |-> "cancel"]
    /\ termReason' = "recv_cancel"
    /\ innerPc' = "terminated"
    /\ UNCHANGED <<envVars, pingVars, retryVars, cancelInRecv, framesSeen, hmVars, queue,
                   doneVars, helper>>

\* `_ = cancel.cancelled() => { queue.close(); return Ok(()); }` and, in the
\* retry loop, `Ok(_) => break`
RecvCancelled ==
    /\ innerPc = "recv"
    /\ cancelled
    /\ queueClosed' = TRUE
    /\ queueCloseCalls' = queueCloseCalls + 1
    /\ lastRecv' = [cancelled |-> cancelInRecv, result |-> "Ok", code |-> "none",
                   via |-> "cancel"]
    /\ termReason' = "recv_cancel"
    /\ innerPc' = "terminated"
    /\ UNCHANGED <<envVars, pingVars, retryVars, cancelInRecv, framesSeen, hmVars, queue,
                   doneVars, helper>>

\* `Some(m) => m`: a frame arrived, handle_message(.., m.received_messages)
RecvFrame(shape) ==
    /\ innerPc = "recv"
    /\ framesSeen < MaxFrames
    /\ framesSeen' = framesSeen + 1
    /\ messages' = FrameOf(shape, framesSeen)
    /\ idx' = 1
    /\ nack_targets' = <<>>
    /\ delivered' = <<>>
    /\ closedAtEntry' = queueClosed
    /\ hmRpcs' = <<>>
    /\ hmReturn' = 0
    /\ nackStatus' = "none"
    /\ innerPc' = "dispatch"
    /\ UNCHANGED <<envVars, pingVars, retryVars, termReason, cancelInRecv, lastRecv,
                   queueVars, doneVars, helper>>

\* `None => return Ok(())` and, in the retry loop, `Ok(_) => break`
RecvEnd ==
    /\ innerPc = "recv"
    /\ lastRecv' = [cancelled |-> cancelInRecv, result |-> "Ok", code |-> "none",
                   via |-> "end"]
    /\ termReason' = "recv_end"
    /\ queueClosed' = SenderDropped(queueClosed)
    /\ innerPc' = "terminated"
    /\ UNCHANGED <<envVars, pingVars, retryVars, cancelInRecv, framesSeen, hmVars, queue,
                   queueCloseCalls, doneVars, helper>>

\* Mutant of RecvError: the queue is closed before the read error is returned,
\* also when the retry loop then reconnects.
RecvError_Closes(code) ==
    LET f == RecvFailure(code, retryable_codes) IN
    /\ innerPc = "recv"
    /\ lastRecv' = [cancelled |-> cancelInRecv, result |-> "Err", code |-> code,
                   via |-> "error"]
    /\ innerPc' = f.next
    /\ termReason' = IF f.next = "terminated" THEN f.reason ELSE termReason
    /\ queueClosed' = TRUE
    /\ queueCloseCalls' = queueCloseCalls + 1
    /\ UNCHANGED <<envVars, pingVars, retryVars, cancelInRecv, framesSeen, hmVars, queue,
                   doneVars, helper>>

\* `let message = maybe?;` returns Err(e); the retry loop classifies it
RecvError(code) ==
    LET f == RecvFailure(code, retryable_codes) IN
    /\ innerPc = "recv"
    /\ lastRecv' = [cancelled |-> cancelInRecv, result |-> "Err", code |-> code,
                   via |-> "error"]
    /\ innerPc' = f.next
    /\ termReason' = IF f.next = "terminated" THEN f.reason ELSE termReason
    /\ queueClosed' = IF f.next = "terminated" THEN SenderDropped(queueClosed)
                      ELSE queueClosed
    /\ UNCHANGED <<envVars, pingVars, retryVars, cancelInRecv, framesSeen, hmVars, queue,
                   queueCloseCalls, doneVars, helper>>

(***************************************************************************)
(* handle_message: the dispatcher.                                         *)
(***************************************************************************)
InLoop == innerPc = "dispatch" /\ idx <= Len(messages)

\* `if let Some(message) = received_message.message` does not match
DispatchSkip ==
    /\ InLoop
    /\ ~messages[idx].message
    /\ idx' = idx + 1
    /\ UNCHANGED <<envVars, pingVars, innerPc, retryVars, recvVars, messages,
                   nack_targets, delivered, closedAtEntry, hmRpcs, hmReturn,
                   nackStatus, queueVars, doneVars, helper>>

\* Mutant of DispatchSendOk: the send does not wait for room in the queue (an
\* unbounded channel).
DispatchSendOk_NoCapacity ==
    /\ InLoop
    /\ messages[idx].message
    /\ ~queueClosed
    /\ queue' = Append(queue, ReceivedMessage_new(messages[idx].ack_id,
                           then_some_attempt(messages[idx].delivery_attempt)))
    /\ delivered' = Append(delivered, messages[idx].ack_id)
    /\ idx' = idx + 1
    /\ UNCHANGED <<envVars, pingVars, innerPc, retryVars, recvVars, messages,
                   nack_targets, closedAtEntry, hmRpcs, hmReturn, nackStatus,
                   queueClosed, queueCloseCalls, doneVars, helper>>

\* select!: `result = queue.send(msg) => result.is_err()` with Ok: the handle
\* is in the queue; should_nack is false
DispatchSendOk ==
    /\ InLoop
    /\ messages[idx].message
    /\ ~queueClosed
    /\ Len(queue) < QueueCap
    /\ queue' = Append(queue, ReceivedMessage_new(messages[idx].ack_id,
                           then_some_attempt(messages[idx].delivery_attempt)))
    /\ delivered' = Append(delivered, messages[idx].ack_id)
    /\ idx' = idx + 1
    /\ UNCHANGED <<envVars, pingVars, innerPc, retryVars, recvVars, messages,
                   nack_targets, closedAtEntry, hmRpcs, hmReturn, nackStatus,
                   queueClosed, queueCloseCalls, doneVars, helper>>

\* Mutant of DispatchSendErr: the result of the send is ignored
\* (`let _ = queue.send(msg).await`), the envelope is recorded nowhere.
DispatchSendErr_Ignored ==
    /\ InLoop
    /\ messages[idx].message
    /\ queueClosed
    /\ idx' = idx + 1
    /\ UNCHANGED <<envVars, pingVars, innerPc, retryVars, recvVars, messages,
                   nack_targets, delivered, closedAtEntry, hmRpcs, hmReturn,
                   nackStatus, queueVars, doneVars, helper>>

\* select!: `result = queue.send(msg) => result.is_err()` with Err: the
\* channel is closed; should_nack is true
DispatchSendErr ==
    /\ InLoop
    /\ messages[idx].message
    /\ queueClosed
    /\ nack_targets' = Append(nack_targets, messages[idx].ack_id)
    /\ idx' = idx + 1
    /\ UNCHANGED <<envVars, pingVars, innerPc, retryVars, recvVars, messages,
                   delivered, closedAtEntry, hmRpcs, hmReturn, nackStatus,
                   queueVars, doneVars, helper>>

\* Mutant of DispatchCancelled: the send is awaited alone, not raced against
\* cancel.cancelled(), so cancellation never ends a pending send.
DispatchCancelled_NotRaced ==
    /\ FALSE
    /\ UNCHANGED vars

\* select!: `_ = cancel.cancelled() => true`: the send future is dropped
\* before it completed; should_nack is true
DispatchCancelled ==
    /\ InLoop
    /\ messages[idx].message
    /\ cancelled
    /\ nack_targets' = Append(nack_targets, messages[idx].ack_id)
    /\ idx' = idx + 1
    /\ UNCHANGED <<envVars, pingVars, innerPc, retryVars, recvVars, messages,
                   delivered, closedAtEntry, hmRpcs, hmReturn, nackStatus,
                   queueVars, doneVars, helper>>

\* Mutant of DispatchFinish: one nack call per recorded token instead of one
\* batched call.
DispatchFinish_PerToken ==
    /\ innerPc = "dispatch"
    /\ idx > Len(messages)
    /\ IF Len(nack_targets) > 0
       THEN /\ hmRpcs' = hmRpcs \o [i \in 1..Len(nack_targets) |->
                                       nack(<<nack_targets[i]>>, "Ok").rpcs[1]]
            /\ hmReturn' = hmReturn
            /\ innerPc' = "nack"
       ELSE /\ hmRpcs' = hmRpcs
            /\ hmReturn' = Len(nack_targets)
            /\ innerPc' = "hm_done"
    /\ UNCHANGED <<envVars, pingVars, retryVars, recvVars, messages, idx,
                   nack_targets, delivered, closedAtEntry, nackStatus, queueVars,
                   doneVars, helper>>

\* after the loop: `let size = nack_targets.len(); if size > 0 { nack(..) }`
\* issues the batched call, else `size` is returned at once
DispatchFinish ==
    /\ innerPc = "dispatch"
    /\ idx > Len(messages)
    /\ IF Len(nack_targets) > 0
       THEN /\ hmRpcs' = hmRpcs \o nack(nack_targets, "Ok").rpcs
            /\ hmReturn' = hmReturn
            /\ innerPc' = "nack"
       ELSE /\ hmRpcs' = hmRpcs
            /\ hmReturn' = Len(nack_targets)
            /\ innerPc' = "hm_done"
    /\ UNCHANGED <<envVars, pingVars, retryVars, recvVars, messages, idx,
                   nack_targets, delivered, closedAtEntry, nackStatus, queueVars,
                   doneVars, helper>>

\* Mutant of NackReturn: a failed nack is propagated (`nack(..).await?`), recv
\* returns it and the retry loop classifies it as it does a read error.
NackReturn_Escalates(st) ==
    LET f == RecvFailure(st, retryable_codes) IN
    /\ innerPc = "nack"
    /\ nackStatus' = st
    /\ hmReturn' = Len(nack_targets)
    /\ IF st = "Ok"
       THEN /\ innerPc' = "hm_done"
            /\ UNCHANGED <<lastRecv, termReason, queueClosed>>
       ELSE /\ innerPc' = f.next
            /\ lastRecv' = [cancelled |-> cancelInRecv, result |-> "Err", code |-> st,
                            via |-> "error"]
            /\ termReason' = IF f.next = "terminated" THEN f.reason ELSE termReason
            /\ queueClosed' = IF f.next = "terminated" THEN SenderDropped(queueClosed)
                              ELSE queueClosed
    /\ UNCHANGED <<envVars, pingVars, retryVars, cancelInRecv, framesSeen, messages,
                   idx, nack_targets, delivered, closedAtEntry, hmRpcs, queue,
                   queueCloseCalls, doneVars, helper>>

\* the nack call completes with status st; an Err is logged only; `size`
NackReturn(st) ==
    /\ innerPc = "nack"
    /\ nackStatus' = st
    /\ hmReturn' = Len(nack_targets)
    /\ innerPc' = "hm_done"
    /\ UNCHANGED <<envVars, pingVars, retryVars, recvVars, messages, idx,
                   nack_targets, delivered, closedAtEntry, hmRpcs, queueVars,
                   doneVars, helper>>

\* recv: `let _ = handle_message(..).await;` and the loop selects again
RecvContinue ==
    /\ innerPc = "hm_done"
    /\ innerPc' = "recv"
    /\ messages' = <<>>
    /\ idx' = 1
    /\ nack_targets' = <<>>
    /\ delivered' = <<>>
    /\ closedAtEntry' = FALSE
    /\ hmRpcs' = <<>>
    /\ hmReturn' = 0
    /\ nackStatus' = "none"
    /\ UNCHANGED <<envVars, pingVars, retryVars, recvVars, queueVars, doneVars,
                   helper>>

(***************************************************************************)
(* Subscriber::done.                                                       *)
(***************************************************************************)
\* done() returns
DoneReturn ==
    /\ donePc' = "idle"
    /\ doneReturns' = doneReturns + 1

\* Mutant of DoneSecond: the handle is awaited in place and left in self.inner
\* (`if let Some(v) = self.inner.as_mut()`).
DoneSecond_NotTaken(awaited) ==
    IF inner
    THEN /\ inner' = inner
         /\ donePc' = "awaitInner"
         /\ doneAwaited' = Append(awaited, "inner")
         /\ doneReturns' = doneReturns
    ELSE /\ inner' = inner
         /\ doneAwaited' = awaited
         /\ DoneReturn

\* `if let Some(v) = self.inner.take() { let _ = v.await; }`, then return
DoneSecond(awaited) ==
    IF inner
    THEN /\ inner' = FALSE
         /\ donePc' = "awaitInner"
         /\ doneAwaited' = Append(awaited, "inner")
         /\ doneReturns' = doneReturns
    ELSE /\ inner' = inner
         /\ doneAwaited' = awaited
         /\ DoneReturn

\* a call of done(): `if let Some(v) = self.pinger.take() { let _ = v.await; }`
DoneCall ==
    /\ donePc = "idle"
    /\ doneReturns < MaxDoneCalls
    /\ IF pinger
       THEN /\ pinger' = FALSE
            /\ donePc' = "awaitPinger"
            /\ doneAwaited' = <<"pinger">>
            /\ UNCHANGED <<inner, doneReturns>>
       ELSE /\ pinger' = pinger
            /\ DoneSecond(<<>>)
    /\ UNCHANGED <<envVars, pingVars, innerPc, retryVars, recvVars, hmVars,
                   queueVars, helper>>

\* the awaited pinger JoinHandle completes
DoneJoinPinger ==
    /\ donePc = "awaitPinger"
    /\ pingerPc = "done"
    /\ pinger' = pinger
    /\ DoneSecond(doneAwaited)
    /\ UNCHANGED <<envVars, pingVars, innerPc, retryVars, recvVars, hmVars,
                   queueVars, helper>>

\* the awaited inner JoinHandle completes
DoneJoinInner ==
    /\ donePc = "awaitInner"
    /\ innerPc = "terminated"
    /\ DoneReturn
    /\ UNCHANGED <<envVars, pingVars, innerPc, retryVars, recvVars, hmVars,
                   queueVars, pinger, inner, doneAwaited, helper>>

(***************************************************************************)
(* The batched RPC helpers called on their own, as a lease handle or any   *)
(* other caller does.  A call with tokens sends its request and is then    *)
(* suspended on the broker's answer (`.await`); it returns when the broker *)
(* answers.  A call with no token returns at once.  One call is followed   *)
(* at a time: calls share no state.                                        *)
(***************************************************************************)
Statuses == {"Ok"} \cup Codes
TokenLists == UNION {[1..len -> 1..MaxTokens] : len \in 0..MaxIds}
\* the nack convention, and the ends of the broker-valid range [10, 600]
DeadlineChoices == {0, 10, 600}

\* what the helper `op` issues and returns when the broker answers `st`
HelperOut(op, ack_ids, seconds, st) ==
    CASE op = "ack" -> ack(ack_ids, st)
      [] op = "nack" -> nack(ack_ids, st)
      [] OTHER -> modify_ack_deadline(ack_ids, seconds, st)

\* a request is out and the caller is suspended on its answer
HelperPending == helper.op # "none" /\ helper.result = "none"

\* the call up to its first suspension: the empty-list return, or the request
\* handed to the client; "none" is the answer not received yet
HelperCall(op, ack_ids, seconds) ==
    /\ ~HelperPending
    /\ LET out == HelperOut(op, ack_ids, seconds, "none")
       IN helper' = [ack_ids |-> ack_ids, rpcs |-> out.rpcs,
                     result |-> out.result, op |-> op, seconds |-> seconds,
                     status |-> "none"]
    /\ UNCHANGED <<envVars, pingVars, innerPc, retryVars, recvVars, hmVars,
                   queueVars, doneVars>>

CallAck(ack_ids) == HelperCall("ack", ack_ids, -1)

CallNack(ack_ids) == HelperCall("nack", ack_ids, NackDeadlineSeconds)

CallModifyAckDeadline(ack_ids, seconds) ==
    HelperCall("modify_ack_deadline", ack_ids, seconds)

\* the broker answers `st`: `.await.map(|e| e.into_inner())` returns it
HelperAnswer(st) ==
    /\ HelperPending
    /\ helper' = [helper EXCEPT
           !.result = HelperOut(helper.op, helper.ack_ids, helper.seconds, st).result,
           !.status = st]
    /\ UNCHANGED <<envVars, pingVars, innerPc, retryVars, recvVars, hmVars,
                   queueVars, doneVars>>

(***************************************************************************)
(* Specifications.                                                         *)
(***************************************************************************)
\* the owner of the token and the consumer of the queue
EnvNext ==
    \/ Cancel
    \/ ConsumerRecv
    \/ ConsumerClose

\* the retry loop of the inner task and the exits of recv
RetryNext ==
    \/ StreamingPullCall
    \/ StreamingPullOk
    \/ \E code \in Codes : StreamingPullErr(code)
    \/ SleepDone
    \/ RecvCancelled
    \/ RecvEnd
    \/ \E code \in Codes : RecvError(code)

\* a frame and its dispatch by handle_message
DispatchNext ==
    \/ \E shape \in FrameShapes : RecvFrame(shape)
    \/ DispatchSkip
    \/ DispatchSendOk
    \/ DispatchSendErr
    \/ DispatchCancelled
    \/ DispatchFinish
    \/ \E st \in Statuses : NackReturn(st)
    \/ RecvContinue

PingerNext ==
    \/ PingerCancelled
    \/ PingerTick
    \/ PingForward
    \/ PingReceiversDropped

DoneNext ==
    \/ DoneCall
    \/ DoneJoinPinger
    \/ DoneJoinInner

\* Spec: the receive/retry task, the broker, the consumer and the owner of
\* the cancellation token.
Next == EnvNext \/ RetryNext \/ DispatchNext

Spec == Init /\ [][Next]_vars

\* StreamSpec: as Spec, with a broker that accepts every stream open.  The
\* receive loop and the dispatcher read nothing of what an open failure
\* changes (cancel_retry, the backoff sleep), and a read error still leads to
\* reconnects.
StreamNext ==
    \/ EnvNext
    \/ StreamingPullCall
    \/ StreamingPullOk
    \/ RecvCancelled
    \/ RecvEnd
    \/ \E code \in Codes : RecvError(code)
    \/ DispatchNext

StreamSpec == Init /\ [][StreamNext]_vars

\* JoinSpec: both tasks and done().  The broker pushes no frame here: the
\* dispatcher's steps are local to recv and change neither task's exit nor
\* the Subscriber handle, and the pinger and done() read none of its state.
JoinNext == Cancel \/ RetryNext \/ PingerNext \/ DoneNext

JoinSpec == Init /\ [][JoinNext]_vars

\* HelperSpec: the batched RPC helpers on every input.
HelperNext ==
    \/ \E ids \in TokenLists : CallAck(ids)
    \/ \E ids \in TokenLists : CallNack(ids)
    \/ \E ids \in TokenLists, secs \in DeadlineChoices :
           CallModifyAckDeadline(ids, secs)
    \/ \E st \in Statuses : HelperAnswer(st)

HelperSpec == Init /\ [][HelperNext]_vars

(***************************************************************************)
(* Fairness.  The scheduler runs every spawned task; an RPC that was       *)
(* issued returns; a backoff sleep ends; select! picks among its ready     *)
(* branches at random, so a branch that is ready again and again is taken  *)
(* (strong fairness of the cancellation branch of recv).  Nothing is       *)
(* assumed of the broker's choices or of the consumer: the inbound stream  *)
(* may stay silent and the consumer may never take a handle.               *)
(***************************************************************************)
\* the steps the inner task takes by itself in the retry loop
RetryStep ==
    \/ StreamingPullCall
    \/ StreamingPullOk
    \/ \E code \in Codes : StreamingPullErr(code)
    \/ SleepDone

\* the steps the inner task takes by itself inside handle_message
DispatchStep ==
    \/ DispatchSkip
    \/ DispatchSendOk
    \/ DispatchSendErr
    \/ DispatchCancelled
    \/ DispatchFinish
    \/ \E st \in Statuses : NackReturn(st)
    \/ RecvContinue

FairSpec ==
    /\ Spec
    /\ WF_vars(RetryStep \/ DispatchStep)
    /\ SF_vars(RecvCancelled)

\* StreamSpec with the fairness of FairSpec: the calls of streaming_pull
\* return, the dispatcher's awaits end, a ready cancellation branch is taken
StreamFairSpec ==
    /\ StreamSpec
    /\ WF_vars(StreamingPullCall \/ StreamingPullOk \/ DispatchStep)
    /\ SF_vars(RecvCancelled)

JoinFairSpec ==
    /\ JoinSpec
    /\ WF_vars(RetryStep)
    /\ SF_vars(RecvCancelled)
    /\ WF_vars(PingerCancelled)
    /\ WF_vars(DoneJoinPinger \/ DoneJoinInner)

(***************************************************************************)
(* Properties of the dispatcher.                                           *)
(***************************************************************************)
\* handle_message is running or has just returned
InHandleMessage == innerPc \in {"dispatch", "nack", "hm_done"}
\* the for loop of handle_message is over
LoopOver == innerPc \in {"nack", "hm_done"} \/ (innerPc = "dispatch" /\ idx > Len(messages))

\* C1: every message-bearing envelope the dispatcher has gone past was
\* either enqueued as a lease handle or recorded for the immediate nack,
\* never both and never neither; an envelope without a payload, or one not
\* reached yet, is in neither.  When the loop is over this holds of every
\* message-bearing envelope of the frame.
C1_ExactlyOneOutcome ==
    InHandleMessage =>
        /\ \A i \in 1..Len(messages) :
               LET id == messages[i].ack_id
                   sent == id \in SeqToSet(delivered)
                   nacked == id \in SeqToSet(nack_targets)
               IN  IF messages[i].message /\ (i < idx \/ LoopOver)
                   THEN sent # nacked
                   ELSE ~sent /\ ~nacked
        /\ Len(delivered) + Len(nack_targets) = Len(BearingIds(SubSeq(messages, 1, idx - 1)))
        /\ LoopOver => Len(delivered) + Len(nack_targets) = Len(BearingIds(messages))

\* C1 witness: a frame of two message-bearing envelopes was dispatched, one
\* handle was enqueued and the other envelope was nacked.
C1_Witness ==
    /\ innerPc = "hm_done"
    /\ Len(delivered) = 1
    /\ Len(nack_targets) = 1
    /\ cancelled

\* C2: when the queue was closed before the dispatch of a frame with N >= 1
\* message-bearing envelopes, nothing is enqueued, exactly one
\* ModifyAckDeadline call with seconds = 0 is issued, its token list is the N
\* lease tokens of the frame, and handle_message returns N.
C2_ClosedQueueNacksAll ==
    (LoopOver /\ closedAtEntry /\ BearingIds(messages) # <<>>) =>
        /\ delivered = <<>>
        /\ nack_targets = BearingIds(messages)
        /\ innerPc \in {"nack", "hm_done"} =>
               hmRpcs = <<[ack_ids |-> BearingIds(messages),
                           ack_deadline_seconds |-> 0,
                           method |-> "ModifyAckDeadline"]>>
        /\ innerPc = "hm_done" => hmReturn = Len(BearingIds(messages))

\* C2 witness: handle_message returned 2 for a frame of two message-bearing
\* envelopes dispatched on a closed queue, without cancellation.
C2_Witness ==
    /\ innerPc = "hm_done"
    /\ closedAtEntry
    /\ ~cancelled
    /\ Len(BearingIds(messages)) = 2
    /\ hmReturn = 2

(***************************************************************************)
(* Properties of the receive loop and of the retry loop.                   *)
(***************************************************************************)
\* the inner task is inside recv (handle_message included)
InRecv == innerPc \in {"recv", "dispatch", "nack", "hm_done"}

\* C3 as stated: whenever recv has returned after the cancellation signal
\* fired during that call of recv, it returned success and the engine has
\* closed the queue exactly once.
C3_ReturnsOkAndClosed ==
    (lastRecv.result # "none" /\ lastRecv.cancelled) =>
        (lastRecv.result = "Ok" /\ queueCloseCalls = 1)

\* C3 amended: once cancellation has fired while the task is inside recv,
\* recv returns; when it returns through its cancellation branch it returns
\* success and the engine has closed the queue exactly once; when a clean
\* end of the stream wins the race recv returns success and the engine has
\* not closed the queue; when a read error wins the race recv returns it.
C3_CancelledRecvReturns ==
    /\ [](lastRecv.via = "cancel" =>
             cancelled /\ lastRecv.result = "Ok" /\ queueCloseCalls = 1)
    /\ [](lastRecv.via = "end" => lastRecv.result = "Ok" /\ queueCloseCalls = 0)
    /\ [](lastRecv.via = "error" => lastRecv.result = "Err")
    /\ []((cancelled /\ InRecv) => <>(~InRecv))

\* C3 witness: recv returned through its cancellation branch after a frame
\* had been dispatched.
C3_Witness ==
    /\ lastRecv.via = "cancel"
    /\ lastRecv.cancelled
    /\ framesSeen >= 1
    /\ queueCloseCalls = 1
    /\ innerPc = "terminated"

\* C5 as stated: whenever the task is TERMINATED the outbound queue is closed.
C5_TerminatedImpliesClosed ==
    innerPc = "terminated" => queueClosed

\* C5 amended: when the task is TERMINATED through the cancellation branch of
\* recv the engine has closed the queue; on every other path (clean end of
\* the stream, non-retryable status, exhausted cancelled-retry budget) the
\* engine has made no close call: the task has only dropped its Sender, and
\* the queue is closed if no other Sender is left.
C5_TerminatedClosure ==
    innerPc = "terminated" =>
        /\ termReason \in {"recv_cancel", "recv_end", "recv_fatal",
                           "open_fatal", "cancel_budget"}
        /\ termReason = "recv_cancel" => (queueClosed /\ queueCloseCalls = 1)
        /\ termReason # "recv_cancel" =>
               (queueCloseCalls = 0 /\ (~otherSenders => queueClosed))

\* C5 witness: the task terminated through the cancellation branch while
\* another Sender of the queue was alive.
C5_Witness ==
    /\ innerPc = "terminated"
    /\ termReason = "recv_cancel"
    /\ otherSenders
    /\ queueClosed

\* a step of the retry loop that leads to a reconnect
ReconnectStep ==
    /\ innerPc \in {"opening", "recv"}
    /\ innerPc' \in {"connecting", "sleep"}

\* The engine has closed the queue: it has called queue.close(), or its task
\* has ended and dropped the last Sender of the channel.
EngineClosedQueue ==
    \/ queueCloseCalls >= 1
    \/ (innerPc = "terminated" /\ ~otherSenders)

\* C6 as stated: the engine closes the queue at most once; whenever it has
\* closed it, the cancellation has fired or the stream has ended cleanly; a
\* failure that leads to a reconnect leaves the queue as it was.
C6_ClosedOnCancelOrCleanEnd ==
    /\ [](queueCloseCalls <= 1)
    /\ [](EngineClosedQueue => (cancelled \/ lastRecv.via = "end"))
    /\ [][ReconnectStep =>
             (queueClosed' = queueClosed /\ queueCloseCalls' = queueCloseCalls)]_vars

\* C6 amended: the engine closes the queue at most once and only when its
\* task ends: by queue.close() in the cancellation branch of recv, with the
\* cancellation fired, or by dropping the last Sender after a clean end of
\* the stream, a non-retryable read error, a non-retryable open failure or
\* the sixth "cancelled" open failure.  A failure that leads to a reconnect
\* leaves the queue as it was and not closed by the engine, and while the
\* task goes on only the consumer closes the queue.
C6_ClosedOnceNeverOnReconnect ==
    /\ [](queueCloseCalls <= 1)
    /\ [](EngineClosedQueue => (innerPc = "terminated" /\ queueClosed))
    /\ [](queueCloseCalls >= 1 =>
             (cancelled /\ termReason = "recv_cancel" /\ lastRecv.via = "cancel"))
    /\ []((EngineClosedQueue /\ queueCloseCalls = 0) =>
             \/ termReason = "recv_end" /\ lastRecv.via = "end"
             \/ /\ termReason = "recv_fatal"
                /\ lastRecv.via = "error"
                /\ lastRecv.code \notin retryable_codes
             \/ /\ termReason = "open_fatal"
                /\ lastOpen \in Codes \ ({"Cancelled"} \cup retryable_codes)
             \/ /\ termReason = "cancel_budget"
                /\ lastOpen = "Cancelled"
                /\ cancel_retry = CancelRetryLimit)
    /\ [][EngineClosedQueue => EngineClosedQueue']_vars
    /\ [][ReconnectStep =>
             /\ queueClosed' = queueClosed
             /\ queueCloseCalls' = queueCloseCalls
             /\ ~EngineClosedQueue']_vars
    /\ [][(queueClosed' # queueClosed \/ queueCloseCalls' # queueCloseCalls) =>
             (innerPc' = "terminated" \/ innerPc' = innerPc)]_vars

\* C6 witness: the task ended on a non-retryable read error without any
\* cancellation and dropped the last Sender, which closed the queue, after a
\* "cancelled" open failure had led to a reconnect.
C6_Witness ==
    /\ EngineClosedQueue
    /\ queueCloseCalls = 0
    /\ ~cancelled
    /\ termReason = "recv_fatal"
    /\ cancelledSeen >= 1
    /\ queueClosed

\* C7: each of the first five "cancelled" answers to a stream open is
\* followed by a sleep of 1000 ms and then by one more open attempt; the
\* sixth ends the task, which then makes no further attempt.
C7_CancelledOpenBudget ==
    /\ [](cancelledSeen <= 6)
    /\ [](innerPc = "sleep" => (sleepMs = 1000 /\ cancelledSeen \in 1..5))
    /\ [](cancelledSeen = 6 =>
             (innerPc = "terminated" /\ termReason = "cancel_budget"))
    /\ [][(innerPc = "opening" /\ cancelledSeen' = cancelledSeen + 1
              /\ cancelledSeen < 5) => innerPc' = "sleep"]_vars
    /\ [][innerPc = "sleep" => innerPc' \in {"sleep", "connecting"}]_vars
    /\ [][innerPc = "connecting" => innerPc' \in {"connecting", "opening"}]_vars
    /\ [][innerPc = "terminated" => innerPc' = "terminated"]_vars

\* C7 witness: the sixth "cancelled" answer has ended the task.
C7_Witness ==
    /\ cancelledSeen = 6
    /\ cancel_retry = 5
    /\ innerPc = "terminated"

(***************************************************************************)
(* Properties of the keepalive task and of done().                         *)
(***************************************************************************)
\* C4 as stated: once cancellation has been requested a call of done()
\* returns, and done() has returned only when both tasks have exited.
C4_DoneReturnsAfterCancel ==
    /\ []((cancelled /\ donePc # "idle") => <>(donePc = "idle"))
    /\ [](doneReturns >= 1 => (pingerPc = "done" /\ innerPc = "terminated"))

\* C8: ping_sender.close() is called at most once, only by the keepalive
\* task and only once cancellation has fired; the task has exited exactly
\* when it has made that call, so nothing but cancellation stops it, a failed
\* send included; no ping token enters the channel once it is closed.
C8_PingChannelClosedOnce ==
    /\ [](pingCloseCalls <= 1)
    /\ [](pingCloseCalls >= 1 => (cancelled /\ pingClosed))
    /\ [](pingerPc = "done" <=> pingCloseCalls = 1)
    /\ []((pingSendFailed /\ ~cancelled) => pingerPc = "select")
    /\ [][pingClosed => (pingClosed' /\ pingBuf' <= pingBuf)]_vars
    /\ [][pingCloseCalls' # pingCloseCalls =>
             (pingerPc = "select" /\ pingerPc' = "done")]_vars

\* C8 witness: a ping send failed before cancellation, the task went on, and
\* it has closed the channel and exited on cancellation.
C8_Witness ==
    /\ pingSendFailed
    /\ pingerPc = "done"
    /\ pingCloseCalls = 1
    /\ termReason # "recv_cancel"

\* C9: done() awaits the keepalive task and then the receive/retry task: it
\* waits for the inner task only once the pinger has exited; once a call has
\* returned both handles are taken and both tasks have exited; a later call
\* awaits nothing, returns at once and leaves the handle as it is.
C9_DoneOrderIdempotent ==
    /\ [](doneAwaited \in {<<>>, <<"pinger">>, <<"pinger", "inner">>})
    /\ [](donePc = "awaitPinger" => (doneAwaited = <<"pinger">> /\ inner))
    /\ [](donePc = "awaitInner" =>
             (doneAwaited = <<"pinger", "inner">> /\ pingerPc = "done"))
    /\ [](doneReturns >= 1 =>
             (~pinger /\ ~inner /\ pingerPc = "done" /\ innerPc = "terminated"))
    /\ [](doneReturns >= 2 => doneAwaited = <<>>)
    /\ [][doneReturns >= 1 =>
             (donePc' = "idle" /\ pinger' = pinger /\ inner' = inner)]_vars

\* C9 witness: a second call of done() has returned.
C9_Witness ==
    /\ doneReturns = 2
    /\ donePc = "idle"
    /\ doneAwaited = <<>>

(***************************************************************************)
(* Properties of the batched RPC helpers.                                  *)
(***************************************************************************)
\* C10: with an empty token list a helper issues no RPC and returns Ok
\* without waiting for the broker; with a non-empty list it issues exactly one
\* RPC, of its own method, carrying all the tokens (and the deadline: 0 for
\* nack), is suspended until the broker answers, and returns the status the
\* broker answered; the answer, whatever it is, issues no further RPC.
C10_HelperOneCallNoRetry ==
    helper.op # "none" =>
        IF helper.ack_ids = <<>>
        THEN helper.rpcs = <<>> /\ helper.result = "Ok" /\ helper.status = "none"
        ELSE /\ Len(helper.rpcs) = 1
             /\ helper.rpcs[1].ack_ids = helper.ack_ids
             /\ helper.rpcs[1].method =
                    (IF helper.op = "ack" THEN "Acknowledge" ELSE "ModifyAckDeadline")
             /\ helper.op = "nack" => helper.rpcs[1].ack_deadline_seconds = 0
             /\ helper.op = "modify_ack_deadline" =>
                    helper.rpcs[1].ack_deadline_seconds = helper.seconds
             /\ helper.result = helper.status

\* C10 witness: nack of two tokens was answered with an error, which it
\* returned.
C10_Witness ==
    /\ helper.op = "nack"
    /\ Len(helper.ack_ids) = 2
    /\ Len(helper.rpcs) = 1
    /\ helper.status = "Unavailable"
    /\ helper.result = "Unavailable"

(***************************************************************************)
(* Properties of the lease handle.                                         *)
(***************************************************************************)
\* C11: every lease handle the dispatcher has enqueued answers
\* delivery_attempt() with None when the broker reported 0 attempts for its
\* envelope, and with Some(k), k >= 1 the reported count, when the broker
\* reported any other count.
C11_DeliveryAttemptOption ==
    \A k \in 1..Len(queue) :
        LET h == queue[k]
            reported == ReportedAttempt(h.ack_id)
        IN  /\ reported = 0 => h.delivery_attempt = None
            /\ reported # 0 => (reported >= 1 /\ h.delivery_attempt = Some(reported))
            /\ h.delivery_attempt # None => h.delivery_attempt[1] >= 1

\* C11 witness: the queue holds the handle of a redelivered message, whose
\* delivery_attempt() is Some(1).
C11_Witness ==
    /\ queue # <<>>
    /\ ReportedAttempt(queue[1].ack_id) = 1
    /\ queue[1].delivery_attempt = Some(1)

(***************************************************************************)
(* Properties of the open-stream request and of the failure                *)
(* classification.                                                         *)
(***************************************************************************)
\* C12: every call of streaming_pull, the first one and every reconnection,
\* is made with a request built in that iteration of the loop, carrying the
\* subscription name, config.stream_ack_deadline_seconds and both
\* flow-control caps of the configuration; the configuration never changes,
\* so the requests of all open attempts of one engine are identical.
C12_FullRequestOnEveryOpen ==
    /\ [](innerPc = "opening" =>
             /\ request.subscription = subscription
             /\ request.stream_ack_deadline_seconds = config.stream_ack_deadline_seconds
             /\ request.max_outstanding_messages = config.max_outstanding_messages
             /\ request.max_outstanding_bytes = config.max_outstanding_bytes)
    /\ [](lastOpen # "none" => request = BuildRequest(config))
    /\ [][config' = config]_vars
    /\ [][(innerPc = "connecting" /\ innerPc' = "opening") =>
             request' = BuildRequest(config')]_vars
    /\ [][request' # request =>
             (innerPc = "connecting" /\ innerPc' = "opening"
                 /\ request = create_empty_streaming_pull_request)]_vars

\* C12 witness: an open attempt is in flight after a read error on an open
\* stream and after a "cancelled" open failure, with the custom configuration.
C12_Witness ==
    /\ innerPc = "opening"
    /\ lastRecv.via = "error"
    /\ cancel_retry >= 1
    /\ config.stream_ack_deadline_seconds = 10
    /\ request = BuildRequest(config)

\* C13: cancel_retry starts at 0, never decreases, changes only by the
\* increment made on a "cancelled" open failure that is retried, is left as
\* it is by a successful open and by a reconnect, and never exceeds 5; it
\* counts the "cancelled" open failures retried so far, so that at most five
\* are retried during the life of the engine, whatever happens in between.
C13_CounterScopedToEngine ==
    /\ cancel_retry = 0
    /\ [](cancel_retry \in 0..5)
    /\ [](cancel_retry = IF cancelledSeen < 5 THEN cancelledSeen ELSE 5)
    /\ [][cancel_retry' >= cancel_retry]_vars
    /\ [][cancel_retry' # cancel_retry =>
             /\ cancel_retry' = cancel_retry + 1
             /\ innerPc = "opening" /\ innerPc' = "sleep"
             /\ lastOpen' = "Cancelled"]_vars
    /\ [][(innerPc = "opening" /\ innerPc' = "recv") =>
             cancel_retry' = cancel_retry]_vars
    /\ [][(innerPc \in {"opening", "recv"} /\ innerPc' = "connecting") =>
             cancel_retry' = cancel_retry]_vars

\* C13 witness: the budget ran out at the sixth "cancelled" open failure
\* although a stream had been opened, had delivered a frame and had failed
\* with a retryable read error during the life of the engine.
C13_Witness ==
    /\ innerPc = "terminated"
    /\ termReason = "cancel_budget"
    /\ cancel_retry = 5
    /\ framesSeen >= 1
    /\ lastRecv.via = "error"
    /\ lastRecv.code = "Unavailable"

\* the step in which streaming_pull answers
OpenAnswered == innerPc = "opening" /\ innerPc' # "opening"

\* C14: when streaming_pull fails with a code other than "cancelled", then if
\* the code is in the retryable set the loop goes back to its top at once,
\* with no sleep and with cancel_retry (and everything else the loop decides
\* on) as before, so that nothing bounds the number of such retries; if the
\* code is not in the set the task ends, and makes no further attempt.  A
\* backoff sleep only ever follows a "cancelled" answer.
C14_OtherOpenFailures ==
    /\ [][(OpenAnswered /\ lastOpen' \notin {"Ok", "Cancelled"}) =>
             IF lastOpen' \in retryable_codes
             THEN /\ innerPc' = "connecting"
                  /\ sleepMs' = 0
                  /\ cancel_retry' = cancel_retry
                  /\ cancelledSeen' = cancelledSeen
                  /\ termReason' = termReason
             ELSE /\ innerPc' = "terminated"
                  /\ termReason' = "open_fatal"
                  /\ cancel_retry' = cancel_retry]_vars
    /\ [](innerPc = "sleep" => lastOpen = "Cancelled")
    /\ [](termReason = "open_fatal" =>
             (innerPc = "terminated" /\ lastOpen \notin retryable_codes
                 /\ lastOpen \notin {"Ok", "Cancelled"}))
    /\ [][termReason = "open_fatal" => UNCHANGED <<innerPc, request, lastOpen>>]_vars

\* C14 witness: an open failed with a retryable code after "cancelled" open
\* failures; the loop is back at its top with the counter as it was.
C14_Witness ==
    /\ innerPc = "connecting"
    /\ lastOpen = "Unavailable"
    /\ cancel_retry = 2
    /\ sleepMs = 0

\* the step in which recv returns a read error
RecvErrored == innerPc = "recv" /\ lastRecv'.via = "error"

\* C15: a read error on an open stream, "cancelled" included, leaves
\* cancel_retry as it is and is followed by no backoff sleep: the loop goes
\* back to its top at once if and only if the code is in the retryable set,
\* and the task ends otherwise.
C15_ReadErrorNoBudget ==
    [][RecvErrored =>
          /\ cancel_retry' = cancel_retry
          /\ cancelledSeen' = cancelledSeen
          /\ sleepMs' = 0
          /\ innerPc' \in {"connecting", "terminated"}
          /\ innerPc' = "connecting" <=> lastRecv'.code \in retryable_codes
          /\ innerPc' = "terminated" => termReason' = "recv_fatal"]_vars

\* C15 witness: with "cancelled" in the retryable set and the budget of five
\* used up, a "cancelled" read error has led to one more reconnect.
C15_Witness ==
    /\ innerPc = "connecting"
    /\ lastRecv.via = "error"
    /\ lastRecv.code = "Cancelled"
    /\ cancel_retry = 5
    /\ sleepMs = 0

(***************************************************************************)
(* Properties of the immediate nack and of backpressure.                   *)
(***************************************************************************)
\* C16: whatever the nack call of handle_message returns, handle_message
\* returns the number of recorded tokens, recv does not return, and the next
\* step of the task is the next round of the receive loop: the step in which
\* the call returns changes nothing of the retry loop, of the result of recv
\* or of the queue.
C16_NackFailureContained ==
    /\ [](innerPc = "hm_done" => hmReturn = Len(nack_targets))
    /\ []((innerPc = "hm_done" /\ nackStatus \notin {"none", "Ok"}) =>
             (hmReturn >= 1 /\ lastRecv = NoRecv /\ termReason = "none"))
    /\ [][innerPc = "nack" =>
             /\ innerPc' \in {"nack", "hm_done"}
             /\ UNCHANGED <<retryVars, termReason, lastRecv, framesSeen,
                            queueCloseCalls>>]_vars
    /\ [][innerPc = "hm_done" =>
             /\ innerPc' \in {"hm_done", "recv"}
             /\ UNCHANGED <<retryVars, termReason, lastRecv, framesSeen,
                            queueCloseCalls>>]_vars

\* C16 witness: the nack of two tokens failed with a non-retryable status and
\* handle_message has returned 2, recv still running.
C16_Witness ==
    /\ innerPc = "hm_done"
    /\ nackStatus = "PermissionDenied"
    /\ hmReturn = 2
    /\ lastRecv = NoRecv

\* C17: cancellation does not end a dispatch in progress.  While
\* handle_message runs the task neither closes the queue nor leaves recv;
\* the queue is closed by the engine only from the select! of recv; once the
\* loop of handle_message is over with tokens recorded, one
\* ModifyAckDeadline request with seconds = 0 carrying them has been issued,
\* and handle_message returns only when that call has returned; and when
\* tokens are recorded with the token cancelled, the call is issued and
\* returns.
C17_NackNotInterrupted ==
    /\ [][InHandleMessage =>
             (innerPc' \in {"dispatch", "nack", "hm_done", "recv"}
                 /\ queueCloseCalls' = queueCloseCalls
                 /\ lastRecv' = NoRecv)]_vars
    /\ [][queueCloseCalls' # queueCloseCalls => innerPc = "recv"]_vars
    /\ []((innerPc \in {"nack", "hm_done"} /\ nack_targets # <<>>) =>
             hmRpcs = <<ModifyAckDeadlineRequest(nack_targets, 0)>>)
    /\ []((innerPc = "hm_done" /\ nack_targets # <<>>) => nackStatus # "none")
    /\ []((cancelled /\ InHandleMessage /\ nack_targets # <<>>) =>
             <>(innerPc = "hm_done" /\ nackStatus # "none"))

\* C17 witness: cancellation fired during the dispatch of a frame, after its
\* first handle had been enqueued; the other token was recorded, the nack call
\* has returned, and the queue has not been closed yet.
C17_Witness ==
    /\ innerPc = "hm_done"
    /\ cancelled
    /\ cancelInRecv
    /\ Len(delivered) = 1
    /\ Len(nack_targets) = 1
    /\ nackStatus # "none"
    /\ ~queueClosed
    /\ queueCloseCalls = 0

\* the dispatcher is at the select! of a message-bearing envelope
AtSend == InLoop /\ messages[idx].message
\* the receive/retry task takes no step
TaskStays ==
    UNCHANGED <<innerPc, retryVars, termReason, lastRecv, framesSeen, messages, idx,
                nack_targets, delivered, hmRpcs, hmReturn, nackStatus,
                queueCloseCalls>>
\* the handle of the envelope at position k is the last one enqueued
SentAt(k) ==
    /\ InHandleMessage
    /\ idx = k + 1
    /\ delivered # <<>>
    /\ delivered[Len(delivered)] = messages[k].ack_id
    /\ queue # <<>> => queue[Len(queue)].ack_id \in SeqToSet(delivered)
\* a sequence of tokens, or of handles, is in the order of the envelopes
Ascending(ids) == \A j, k \in 1..Len(ids) : j < k => ids[j] < ids[k]
Tokens(handles) == [k \in 1..Len(handles) |-> handles[k].ack_id]

\* C18 as stated: while the queue is full and cancellation has not fired the
\* task takes no step (it reads no frame, the pending envelope is neither
\* nacked nor dropped); the queue never exceeds its capacity; handles are
\* enqueued in the order of the envelopes.
C18_FullQueueSuspends ==
    /\ [](Len(queue) <= QueueCap)
    /\ [][(AtSend /\ Len(queue) = QueueCap /\ ~cancelled) => TaskStays]_vars
    /\ [](Ascending(delivered) /\ Ascending(Tokens(queue)))

\* C18 amended: while the queue is full, not closed, and cancellation has not
\* fired, the task takes no step: it reads no frame and the pending envelope
\* is neither nacked nor dropped; the queue never exceeds its capacity; when
\* the queue is open with room and cancellation has not fired, the only step
\* of the dispatcher is to enqueue the pending handle at the tail, and it
\* takes it unless cancellation or a close of the queue comes first; handles
\* are enqueued in the order of the envelopes.  (On a full queue that the
\* consumer closes, the pending send fails and the envelope is nacked.)
C18_OpenFullQueueSuspends ==
    /\ [](Len(queue) <= QueueCap)
    /\ [][(AtSend /\ Len(queue) = QueueCap /\ ~cancelled /\ ~queueClosed) =>
             TaskStays]_vars
    /\ [][(AtSend /\ Len(queue) < QueueCap /\ ~cancelled /\ ~queueClosed
              /\ idx' # idx) =>
             /\ queue' = Append(queue,
                    ReceivedMessage_new(messages[idx].ack_id,
                        then_some_attempt(messages[idx].delivery_attempt)))
             /\ delivered' = Append(delivered, messages[idx].ack_id)
             /\ nack_targets' = nack_targets]_vars
    /\ [](Ascending(delivered) /\ Ascending(Tokens(queue)))
    /\ \A k \in 1..MaxFrameLen :
           [](( /\ AtSend
                /\ idx = k
                /\ Len(queue) < QueueCap
                /\ ~cancelled /\ ~queueClosed) =>
                 <>(SentAt(k) \/ cancelled \/ queueClosed))

\* C18 witness: more handles than the queue holds were enqueued from one
\* frame, so a send had to wait for the consumer; the queue is full again,
\* open, and cancellation has not fired.
C18_Witness ==
    /\ InHandleMessage
    /\ Len(delivered) > QueueCap
    /\ Len(queue) = QueueCap
    /\ ~cancelled
    /\ ~queueClosed

(***************************************************************************)
(* Properties of termination and of the precedence of "cancelled".         *)
(***************************************************************************)
\* C19: once the receive/retry task has ended, for whatever reason, it stays
\* ended: no call of streaming_pull is made, no frame is read, no handle is
\* enqueued (the consumer can still take the handles left in the queue) and
\* no nack is issued.
C19_TerminatedAbsorbing ==
    /\ [](innerPc = "terminated" =>
             termReason \in {"recv_cancel", "recv_end", "recv_fatal",
                             "open_fatal", "cancel_budget"})
    /\ [](termReason # "none" => innerPc = "terminated")
    /\ [][innerPc = "terminated" =>
             /\ innerPc' = "terminated"
             /\ UNCHANGED <<retryVars, termReason, lastRecv, framesSeen, hmVars,
                            queueCloseCalls>>
             /\ queue' = queue \/ (queue # <<>> /\ queue' = Tail(queue))]_vars

\* C19 witness: the task ended on a non-retryable read error after it had
\* enqueued handles, one of which is still in the queue.
C19_Witness ==
    /\ innerPc = "terminated"
    /\ termReason = "recv_fatal"
    /\ framesSeen >= 1
    /\ queue # <<>>
    /\ ~cancelled

\* C20: what follows a "cancelled" answer to streaming_pull depends on
\* cancel_retry alone, not on the retryable set: below 5 the counter is
\* incremented and the open is retried after the backoff sleep, also when
\* "cancelled" is not in the set; at 5 the task ends, also when "cancelled" is
\* in the set.
C20_CancelledPrecedence ==
    /\ [][(OpenAnswered /\ lastOpen' = "Cancelled") =>
             IF cancel_retry < 5
             THEN /\ innerPc' = "sleep"
                  /\ sleepMs' = 1000
                  /\ cancel_retry' = cancel_retry + 1
             ELSE /\ innerPc' = "terminated"
                  /\ termReason' = "cancel_budget"
                  /\ cancel_retry' = cancel_retry]_vars
    /\ [](termReason = "cancel_budget" =>
             (cancel_retry = 5 /\ lastOpen = "Cancelled" /\ cancelledSeen = 6))
    /\ []((lastOpen = "Cancelled" /\ innerPc = "connecting") =>
             cancel_retry \in 1..5)

\* C20 witness: with "cancelled" in the retryable set, the sixth "cancelled"
\* open failure has ended the task.
C20_Witness ==
    /\ "Cancelled" \in retryable_codes
    /\ innerPc = "terminated"
    /\ termReason = "cancel_budget"
    /\ lastOpen = "Cancelled"
    /\ cancel_retry = 5

====
